---- MODULE Spec2Model ----
(***************************************************************************)
(* Model of the unwrap_none crate (src/src/lib.rs): the UnwrapNone trait   *)
(* implemented for Option<T> where T: fmt::Debug, and the documented       *)
(* HashMap::insert(..).expect_none(..) loops of its doctests.              *)
(*                                                                         *)
(* A call is modelled by the effect it has on its surroundings: whether it *)
(* panicked, the panic text, which function raised the panic, the          *)
(* arguments the closure was called with, how often the Debug impl of the  *)
(* held value was run, and what a recording closure stored.                *)
(***************************************************************************)
EXTENDS Integers, Sequences, FiniteSets, TLC

\* ---------------------------------------------------------------- bounds
MaxAbs == 10      \* i32 values held by an Option range over -MaxAbs..MaxAbs
MaxKey == 2       \* HashMap keys range over 0..MaxKey
MaxMapVal == 1    \* HashMap values range over -MaxMapVal..MaxMapVal
MaxSteps == 3     \* longest insert loop

\* ---------------------------------------------------------------- values
I32(n) == [ty |-> "i32", i |-> n]
Str(x) == [ty |-> "str", s |-> x]

None == [some |-> FALSE]
Some(v) == [some |-> TRUE, val |-> v]

Strs == {"x", "ab"}
T == {I32(n) : n \in -MaxAbs..MaxAbs} \cup {Str(x) : x \in Strs}
OptionT == {None} \cup {Some(v) : v \in T}

\* the message written in unwrap_none; the source's backquotes are written
\* as ' here, as a TLA+ string cannot hold a backquote
UNWRAP_NONE_MSG == "called 'Option::unwrap_none()' on a 'Some' value"
Msgs == {"", "duplicate key", UNWRAP_NONE_MSG}

\* ------------------------------------------------------------ formatting
DigitStr == <<"0", "1", "2", "3", "4", "5", "6", "7", "8", "9">>

RECURSIVE fmt_u(_)
fmt_u(n) == IF n < 10 THEN DigitStr[n + 1]
            ELSE fmt_u(n \div 10) \o DigitStr[(n % 10) + 1]

fmt_i32(n) == IF n < 0 THEN "-" \o fmt_u(-n) ELSE fmt_u(n)

\* {:?} : integers print as decimal, strings print quoted
Debug(v) == IF v.ty = "i32" THEN fmt_i32(v.i) ELSE "\"" \o v.s \o "\""

\* {} : integers print as decimal, strings print as they are
Display(v) == IF v.ty = "i32" THEN fmt_i32(v.i) ELSE v.s

\* --------------------------------------------------------------- effects
\* a call that returned without doing anything
Returned == [panicked |-> FALSE, text |-> "", by |-> "nobody",
             calls |-> <<>>, renders |-> 0, recorded |-> None]

\* the closures of the doctests and of the specification's scenarios
Closures == {"panic", "record", "ignore"}

\* f(val) for a closure f: FnOnce(T)
call_f(f, val) ==
    CASE f = "panic" ->
           [Returned EXCEPT !.panicked = TRUE,
                            !.text = "Got unexpected value: " \o Display(val),
                            !.by = "closure",
                            !.calls = <<val>>]
      [] f = "record" ->
           [Returned EXCEPT !.calls = <<val>>, !.recorded = Some(val)]
      [] OTHER ->
           [Returned EXCEPT !.calls = <<val>>]

\* ------------------------------------------------------------ the crate
\* variants of the crate's functions, each with one plausible slip
expect_none_failed_no_separator(msg, value) ==
    [Returned EXCEPT !.panicked = TRUE,
                     !.text = msg \o Debug(value),
                     !.by = "expect_none_failed",
                     !.renders = 1]

expect_none_failed(msg, value) ==
    [Returned EXCEPT !.panicked = TRUE,
                     !.text = msg \o ": " \o Debug(value),
                     !.by = "expect_none_failed",
                     !.renders = 1]

\* tests for None where it should test for Some
expect_none_inverted(self, msg) ==
    IF self.some THEN Returned ELSE expect_none_failed(msg, I32(0))

\* never fails
expect_none_silent(self, msg) == Returned

\* formats the value before looking at self
expect_none_eager(self, msg) ==
    IF self.some THEN expect_none_failed(msg, self.val)
    ELSE [Returned EXCEPT !.renders = 1]

expect_none(self, msg) ==
    IF self.some THEN expect_none_failed(msg, self.val) ELSE Returned

\* carries another message than the one in the source
unwrap_none_other_msg(self) ==
    IF self.some
    THEN expect_none_failed("called unwrap_none on a value that was present",
                            self.val)
    ELSE Returned

\* passes the caller no value
unwrap_none_no_value(self) ==
    IF self.some
    THEN [expect_none_failed(UNWRAP_NONE_MSG, self.val)
             EXCEPT !.text = UNWRAP_NONE_MSG]
    ELSE Returned

unwrap_none(self) ==
    IF self.some THEN expect_none_failed(UNWRAP_NONE_MSG, self.val)
    ELSE Returned

\* drops the value without calling the closure
unwrap_none_or_else_no_call(self, f) == Returned

\* calls the closure whatever self is
unwrap_none_or_else_always(self, f) ==
    IF self.some THEN call_f(f, self.val) ELSE call_f(f, I32(0))

\* calls the closure on None instead of on Some
unwrap_none_or_else_inverted(self, f) ==
    IF self.some THEN Returned ELSE call_f(f, I32(0))

\* fails by itself once the closure has returned
unwrap_none_or_else_then_fail(self, f) ==
    IF self.some
    THEN LET r == call_f(f, self.val)
         IN IF r.panicked THEN r
            ELSE [expect_none_failed(UNWRAP_NONE_MSG, self.val)
                     EXCEPT !.calls = r.calls, !.recorded = r.recorded,
                            !.renders = 0]
    ELSE Returned

unwrap_none_or_else(self, f) ==
    IF self.some THEN call_f(f, self.val) ELSE Returned

\* ----------------------------------------------------------------- state
VARIABLES
    last,     \* the most recent call of a trait method and its effect
    plan,     \* the (key, value) pairs an insert loop goes through
    method,   \* the method the loop applies to what insert returns
    loopMsg,  \* the message the loop passes to expect_none
    map,      \* the HashMap of the loop
    i,        \* index into plan of the next iteration
    ran,      \* indexes of the iterations that were started
    status    \* "idle", "running", "done" or "aborted"

vars == <<last, plan, method, loopMsg, map, i, ran, status>>

NoCall == [op |-> "nothing", self |-> None, msg |-> "", f |-> "ignore",
           res |-> Returned]

Keys == 0..MaxKey
MapVals == {I32(n) : n \in -MaxMapVal..MaxMapVal}
Pairs == {[k |-> k, v |-> v] : k \in Keys, v \in MapVals}
Plans == UNION {[1..n -> Pairs] : n \in 0..MaxSteps}

HashMap_new == [k \in Keys |-> None]

\* HashMap::insert: stores v under k and returns what was stored before
HashMap_insert(m, k, v) == [map |-> [m EXCEPT ![k] = Some(v)], old |-> m[k]]

\* ------------------------------------------------- single calls (Spec)
Init ==
    /\ last = NoCall
    /\ plan = <<>>
    /\ method = "expect_none"
    /\ loopMsg = ""
    /\ map = HashMap_new
    /\ i = 1
    /\ ran = <<>>
    /\ status = "idle"

LoopUnchanged == UNCHANGED <<plan, method, loopMsg, map, i, ran, status>>

CallExpectNone ==
    /\ status = "idle"
    /\ \E self \in OptionT, msg \in Msgs :
          last' = [op |-> "expect_none", self |-> self, msg |-> msg,
                   f |-> "ignore", res |-> expect_none(self, msg)]
    /\ LoopUnchanged

CallUnwrapNone ==
    /\ status = "idle"
    /\ \E self \in OptionT :
          last' = [op |-> "unwrap_none", self |-> self, msg |-> "",
                   f |-> "ignore", res |-> unwrap_none(self)]
    /\ LoopUnchanged

CallUnwrapNoneOrElse ==
    /\ status = "idle"
    /\ \E self \in OptionT, f \in Closures :
          last' = [op |-> "unwrap_none_or_else", self |-> self, msg |-> "",
                   f |-> f, res |-> unwrap_none_or_else(self, f)]
    /\ LoopUnchanged

Next == CallExpectNone \/ CallUnwrapNone \/ CallUnwrapNoneOrElse

Spec == Init /\ [][Next]_vars

\* ------------------------------------------- the insert loops (SpecMap)
InitMap ==
    /\ last = NoCall
    /\ plan \in Plans
    /\ method \in {"expect_none", "unwrap_none"}
    /\ loopMsg \in IF method = "expect_none" THEN {"", "duplicate key"}
                   ELSE {""}
    /\ map = HashMap_new
    /\ i = 1
    /\ ran = <<>>
    /\ status = "running"

\* one iteration: map.insert(k, v).expect_none(msg) or
\* map.insert(k, v).unwrap_none(); a panic ends the program
InsertStep ==
    /\ status = "running"
    /\ i <= Len(plan)
    /\ LET ins == HashMap_insert(map, plan[i].k, plan[i].v)
           res == IF method = "expect_none"
                  THEN expect_none(ins.old, loopMsg)
                  ELSE unwrap_none(ins.old)
       IN /\ map' = ins.map
          /\ ran' = Append(ran, i)
          /\ last' = [op |-> method, self |-> ins.old, msg |-> loopMsg,
                      f |-> "ignore", res |-> res]
          /\ IF res.panicked
             THEN status' = "aborted" /\ i' = i
             ELSE status' = status /\ i' = i + 1
    /\ UNCHANGED <<plan, method, loopMsg>>

\* the loop ran out of items
LoopEnd ==
    /\ status = "running"
    /\ i > Len(plan)
    /\ status' = "done"
    /\ UNCHANGED <<last, plan, method, loopMsg, map, i, ran>>

NextMap == InsertStep \/ LoopEnd

SpecMap == InitMap /\ [][NextMap]_vars

\* ================================================================ claims

\* C1: expect_none on Some(v) with message m never returns: it panics and
\* the panic text is m, then ": ", then the Debug rendering of v; Some(5)
\* with "duplicate key" gives "duplicate key: 5".
C1_ExpectNoneSomePanics ==
    (last.op = "expect_none" /\ last.self.some) =>
        /\ last.res.panicked
        /\ last.res.by = "expect_none_failed"
        /\ last.res.text = last.msg \o ": " \o Debug(last.self.val)
        /\ (last.self = Some(I32(5)) /\ last.msg = "duplicate key"
               => last.res.text = "duplicate key: 5")
        /\ (last.self = Some(I32(-10)) /\ last.msg = ""
               => last.res.text = ": -10")
        /\ (last.self = Some(Str("x")) /\ last.msg = "duplicate key"
               => last.res.text = "duplicate key: \"x\"")

C1_Witness ==
    /\ last.op = "expect_none"
    /\ last.self = Some(I32(5))
    /\ last.msg = "duplicate key"
    /\ last.res.panicked
    /\ last.res.text = "duplicate key: 5"

\* C2: expect_none and unwrap_none on None return normally, for every
\* message: no panic, no text, and no other effect.
C2_NoneReturns ==
    (last.op \in {"expect_none", "unwrap_none"} /\ ~last.self.some) =>
        /\ ~last.res.panicked
        /\ last.res.text = ""
        /\ last.res = Returned

C2_Witness ==
    /\ last.op = "expect_none"
    /\ last.self = None
    /\ last.msg = ""
    /\ last.res = Returned

\* C3 as stated: unwrap_none on Some(v) panics with the text
\* "called unwrap_none on a value that was present", ": " and the Debug
\* rendering of v.
C3_Original ==
    (last.op = "unwrap_none" /\ last.self.some) =>
        /\ last.res.panicked
        /\ last.res.text = "called unwrap_none on a value that was present"
                              \o ": " \o Debug(last.self.val)

\* C3 as amended: unwrap_none on Some(v) panics with the text
\* "called `Option::unwrap_none()` on a `Some` value", ": " and the Debug
\* rendering of v.
C3_UnwrapNoneSomePanics ==
    (last.op = "unwrap_none" /\ last.self.some) =>
        /\ last.res.panicked
        /\ last.res.by = "expect_none_failed"
        /\ last.res.text =
              "called 'Option::unwrap_none()' on a 'Some' value: "
                 \o Debug(last.self.val)

C3_Witness ==
    /\ last.op = "unwrap_none"
    /\ last.self = Some(I32(5))
    /\ last.res.panicked
    /\ last.res.text = "called 'Option::unwrap_none()' on a 'Some' value: 5"

C5_NoneNeverCallsClosure ==
    (last.op = "unwrap_none_or_else" /\ ~last.self.some) =>
        /\ ~last.res.panicked
        /\ last.res.calls = <<>>
        /\ last.res.recorded = None

C5_Witness ==
    /\ last.op = "unwrap_none_or_else"
    /\ last.self = None
    /\ last.f = "panic"
    /\ ~last.res.panicked
    /\ last.res.calls = <<>>

C9_UnwrapNoneIsExpectNone ==
    /\ last.op = "unwrap_none" =>
          last.res = expect_none(last.self, UNWRAP_NONE_MSG)
    /\ (last.op = "expect_none" /\ last.msg = UNWRAP_NONE_MSG) =>
          last.res = unwrap_none(last.self)

C9_Witness ==
    /\ last.op = "unwrap_none"
    /\ last.self = Some(Str("ab"))
    /\ last.res.panicked
    /\ last.res.text = expect_none(Some(Str("ab")), UNWRAP_NONE_MSG).text

\* C10: the Debug rendering of the value is run once by expect_none or
\* unwrap_none on Some, and never on None or by unwrap_none_or_else.
C10_DebugOnlyOnFailure ==
    (last.op # "nothing") =>
        last.res.renders =
            IF last.op \in {"expect_none", "unwrap_none"} /\ last.self.some
            THEN 1 ELSE 0

C10_Witness ==
    /\ last.op = "unwrap_none"
    /\ last.self.some
    /\ last.res.renders = 1

\* the keys of the first n items of the plan are pairwise distinct
KeysDistinct(n) ==
    \A a, b \in 1..n : a # b => plan[a].k # plan[b].k

\* the text in front of ": " in the panic of the loop's method
LoopPrefix == IF method = "expect_none" THEN loopMsg ELSE UNWRAP_NONE_MSG

\* C7: a loop of map.insert(k, v).expect_none(m) (or .unwrap_none()) over
\* an empty map runs every iteration and ends if the keys are distinct;
\* otherwise it panics in the first iteration whose key was inserted
\* before, runs no later iteration, and the text holds the value that was
\* stored under that key.
C7_LoopStopsAtFirstDuplicate ==
    /\ ran = [j \in 1..Len(ran) |-> j]
    /\ status = "running" =>
          /\ KeysDistinct(i - 1)
          /\ Len(ran) = i - 1
          /\ ENABLED NextMap
    /\ status = "done" =>
          /\ KeysDistinct(Len(plan))
          /\ Len(ran) = Len(plan)
    /\ status = "aborted" =>
          /\ i <= Len(plan)
          /\ Len(ran) = i
          /\ KeysDistinct(i - 1)
          /\ last.res.panicked
          /\ \E a \in 1..(i - 1) :
                /\ plan[a].k = plan[i].k
                /\ last.res.text = LoopPrefix \o ": " \o Debug(plan[a].v)
    /\ KeysDistinct(Len(plan)) => status # "aborted"
    /\ ~KeysDistinct(Len(plan)) => status # "done"

\* the second doctest, with i in -1..=1: sqrts.insert(i * i, i)
C7_Witness ==
    /\ plan = <<[k |-> 1, v |-> I32(-1)], [k |-> 0, v |-> I32(0)],
                [k |-> 1, v |-> I32(1)]>>
    /\ method = "expect_none"
    /\ loopMsg = "duplicate key"
    /\ status = "aborted"
    /\ i = 3
    /\ last.res.text = "duplicate key: -1"

====
